---------------------------- MODULE Spec2Model ----------------------------
(***************************************************************************)
(* A model of Neos21/.github: init.js (create a GitHub repository, clone   *)
(* it, set the local git identity, write the template files) and           *)
(* setup.bash (copy the template tree with a confirmation per file).       *)
(*                                                                         *)
(* Strings are sequences of lexemes.  A lexeme is one character (" ",      *)
(* "\n", "y", "$", "&", ...) or an indivisible run of characters such as   *)
(* "demo"; the two placeholder tokens are lexemes of their own.            *)
(***************************************************************************)
EXTENDS Integers, Sequences, FiniteSets, TLC

VARIABLES
    argv,           \* process.argv from index 2 on
    ghToken,        \* process.env['GH_TOKEN']
    pc,             \* the await the main function of init.js is at
    templateIndex,  \* position of the for-of loop over templateFiles
    fs,             \* the file system: path |-> entry
    remote,         \* whether the creation request created a remote repository
    httpRequests,   \* number of HTTPS requests sent
    commands,       \* shell commands run through execAsync and how each ended, in order
    prompts,        \* readText calls: the message shown and the text returned
    gitConfig,      \* identity keys set in the repository's local git config
    writes,         \* fs.mkdir / fs.writeFile calls that succeeded, in order
    reported,       \* what console.error printed: "none", "usage" or "error"
    error,          \* the value the top-level catch received, "none" if none
    finished,       \* "Finished!" was printed
    spc,            \* setup.bash: "confirm" (the start confirmation), "copy", "exit 1", "finished"
    sentry,         \* setup.bash: the copy call of the script that is running
    sprompts,       \* setup.bash: times the running confirm call has shown its prompt
    sempties,       \* setup.bash: empty lines the running confirm call has read
    sanswer,        \* setup.bash: the line on which the last confirm call returned
    sdst,           \* setup.bash: files in the destination directory: path |-> content
    sdirs           \* setup.bash: destination sub directories made by mkdir -p

vars == <<argv, ghToken, pc, templateIndex, fs, remote, httpRequests, commands,
          prompts, gitConfig, writes, reported, error, finished,
          spc, sentry, sprompts, sempties, sanswer, sdst, sdirs>>

initVars == <<argv, ghToken, pc, templateIndex, fs, remote, httpRequests, commands,
              prompts, gitConfig, writes, reported, error, finished>>

setupVars == <<spc, sentry, sprompts, sempties, sanswer, sdst, sdirs>>

---------------------------------------------------------------------------
(* Strings *)

\* The value of a missing argument, environment variable or record field.
Undefined == <<"<undefined>">>

\* JavaScript truthiness of a string-or-undefined value.
Truthy(v) == v /= Undefined /\ v /= <<>>

\* a ?? b
Nullish(a, b) == IF a = Undefined THEN b ELSE a

WhiteSpace == {" ", "\n", "\t"}

RECURSIVE TrimStart(_)
TrimStart(s) ==
    IF s /= <<>> /\ Head(s) \in WhiteSpace THEN TrimStart(Tail(s)) ELSE s

RECURSIVE TrimEnd(_)
TrimEnd(s) ==
    IF s /= <<>> /\ s[Len(s)] \in WhiteSpace
    THEN TrimEnd(SubSeq(s, 1, Len(s) - 1))
    ELSE s

\* String.prototype.trim
Trim(s) == TrimEnd(TrimStart(s))

RECURSIVE Flatten(_)
Flatten(ss) == IF ss = <<>> THEN <<>> ELSE Head(ss) \o Flatten(Tail(ss))

\* The replacement patterns String.prototype.replace expands in a replacement
\* string when the pattern has no capture group: $$ $& $` $'.
RECURSIVE ExpandReplacement(_, _, _, _)
ExpandReplacement(replacement, matched, before, after) ==
    IF replacement = <<>> THEN <<>>
    ELSE IF Head(replacement) = "$" /\ Len(replacement) >= 2
              /\ replacement[2] \in {"$", "&", "`", "'"}
         THEN (CASE replacement[2] = "$" -> <<"$">>
                 [] replacement[2] = "&" -> matched
                 [] replacement[2] = "`" -> before
                 [] replacement[2] = "'" -> after)
              \o ExpandReplacement(SubSeq(replacement, 3, Len(replacement)),
                                   matched, before, after)
         ELSE <<Head(replacement)>>
              \o ExpandReplacement(Tail(replacement), matched, before, after)

\* content.replace(/token/g, replacement)
ReplaceAll(content, token, replacement) ==
    Flatten([i \in 1..Len(content) |->
        IF content[i] = token
        THEN ExpandReplacement(replacement, <<token>>,
                               SubSeq(content, 1, i - 1),
                               SubSeq(content, i + 1, Len(content)))
        ELSE <<content[i]>>])

---------------------------------------------------------------------------
(* Paths and the file system.  A path is a sequence of segments below the  *)
(* file system root; a segment is a string.                                *)

Dir == [kind |-> "dir", content |-> <<>>]

File(content) == [kind |-> "file", content |-> content]

Parent(path) == SubSeq(path, 1, Len(path) - 1)

\* path.resolve(base, segment): an empty segment resolves to base itself.
Resolve(base, segment) == IF segment = <<>> THEN base ELSE Append(base, segment)

\* The absolute path as the string handed to exec as cwd.
PathString(path) == Flatten([i \in 1..Len(path) |-> <<"/">> \o path[i]])

\* A stat check that never finds the path.
isFileExist_never(files, filePath) == FALSE

\* fs.stat(filePath).then(() => true).catch(() => false)
isFileExist(files, filePath) == filePath \in DOMAIN files

\* fs.mkdir(path, { recursive: true }): the path and its missing ancestors
\* become directories.  Fails when the environment refuses or when the path or
\* an ancestor is a file.
MkdirPaths(path) == {SubSeq(path, 1, n) : n \in 1..Len(path)}

MkdirOk(files, path, outcome) ==
    /\ outcome = "ok"
    /\ \A p \in MkdirPaths(path) : p \in DOMAIN files => files[p].kind = "dir"

Mkdir(files, path) ==
    [p \in MkdirPaths(path) \ DOMAIN files |-> Dir] @@ files

\* fs.writeFile(path, content, 'utf-8'): creates or truncates the file.  Fails
\* when the environment refuses, when the parent is not an existing directory
\* or when the path is a directory.
WriteFileOk(files, path, outcome) ==
    /\ outcome = "ok"
    /\ Parent(path) \in DOMAIN files
    /\ files[Parent(path)].kind = "dir"
    /\ path \in DOMAIN files => files[path].kind = "file"

WriteFile(files, path, content) == (path :> File(content)) @@ files

---------------------------------------------------------------------------
(* Utils *)

\* readText: the data chunk read from stdin, toString().trim()
readText(raw) == Trim(raw)

\* The text compared with what readText returns at every prompt of init.js.
Yes == <<"y">>

\* executeCommand(command, cwd) when exec ends with `outcome`
\* ([code, stdout, stderr], the streams untrimmed).  The value is what the
\* call throws or returns: thrown is "none" for a return, and otherwise names
\* the thrown value ("result" is the trimmed { stdout, stderr } object,
\* "ExecError" the rejection of execAsync, which carries the untrimmed streams).
\* ran tells whether the shell ran the command.
executeCommand(command, cwd, files, outcome) ==
    IF Trim(command) = <<>>
    THEN [thrown |-> "Invalid Command Argument", ran |-> FALSE,
          stdout |-> Undefined, stderr |-> Undefined]
    ELSE IF Trim(PathString(cwd)) = <<>>
    THEN [thrown |-> "Invalid Cwd Argument", ran |-> FALSE,
          stdout |-> Undefined, stderr |-> Undefined]
    ELSE IF ~isFileExist(files, cwd) \/ files[cwd].kind /= "dir"
    THEN \* exec cannot spawn the shell in a missing working directory
         [thrown |-> "ExecError", ran |-> FALSE, stdout |-> <<>>, stderr |-> <<>>]
    ELSE IF outcome.code /= 0
    THEN [thrown |-> "ExecError", ran |-> TRUE,
          stdout |-> outcome.stdout, stderr |-> outcome.stderr]
    ELSE IF Trim(outcome.stderr) /= <<>>
    THEN [thrown |-> "result", ran |-> TRUE,
          stdout |-> Trim(outcome.stdout), stderr |-> Trim(outcome.stderr)]
    ELSE [thrown |-> "none", ran |-> TRUE,
          stdout |-> Trim(outcome.stdout), stderr |-> Trim(outcome.stderr)]

\* What one HTTPS request can end with: the response body is JSON of a created
\* repository, JSON of an API error, or not JSON; the transport fails; or
\* nothing arrives within the 10 seconds of setTimeout.
RequestOutcomes == {"created", "apiError", "notJson", "error", "timeout"}

\* request(url, options, body): resolves with the body or rejects.
request(outcome) ==
    CASE outcome = "error"   -> [rejected |-> "RequestError", data |-> "none"]
      [] outcome = "timeout" -> [rejected |-> "Request Timeout", data |-> "none"]
      [] OTHER               -> [rejected |-> "none", data |-> outcome]

\* JSON.parse(data) throws a SyntaxError on a body that is not JSON.
JsonParseThrows(data) == data = "notJson"

---------------------------------------------------------------------------
(* Arguments *)

PlaceholderName == "__REPOSITORY_NAME__"
PlaceholderDescription == "__DESCRIPTION__"

Arg(a, i) == IF i <= Len(a) THEN a[i] ELSE Undefined

\* process.argv.length < 4
TooFewArguments(a) == Len(a) < 2

repositoryName(a) == Trim(a[1])

description(a) == Trim(a[2])

HomeGitHub == <<"~/Documents/Dev/GitHub">>

ghRootDirectoryPath(a) == IF Truthy(Arg(a, 3)) THEN <<Arg(a, 3)>> ELSE <<HomeGitHub>>

ghRepoDirectoryPath(a) ==
    Resolve(ghRootDirectoryPath(a), Nullish(Arg(a, 4), repositoryName(a)))

\* The directory `git clone <url>` creates in its working directory.
CloneDirectoryPath(a) == Resolve(ghRootDirectoryPath(a), repositoryName(a))

---------------------------------------------------------------------------
(* Template files *)

templateFiles == <<
    [fileName |-> <<".gitignore">>, subDirectory |-> Undefined,
     content |-> <<".DS_Store\nThumbs.db\n\nnode_modules/\n">>],
    [fileName |-> <<"README.md">>, subDirectory |-> Undefined,
     content |-> <<"# ", PlaceholderDescription, "\n\n", PlaceholderDescription,
                   "\n\n\n## Links\n\n- [Neo's World](https://neos21.net/)\n">>],
    [fileName |-> <<"FUNDING.yml">>, subDirectory |-> <<".github">>,
     content |-> <<"github: Neos21\ncustom:\n  - 'https://neos21.net/'\n">>],
    [fileName |-> <<"package.json">>, subDirectory |-> Undefined,
     content |-> <<"{\n  \"name\": \"", PlaceholderName,
                   "\",\n  \"description\": \"", PlaceholderDescription,
                   "\",\n  \"private\": true,\n  \"scripts\": {\n    \"start\": \"node ./index.js\"\n  },\n  \"author\": \"Neo <neos21@gmail.com> (https://neos21.net/)\",\n  \"license\": \"MIT\",\n  \"homepage\": \"https://github.com/Neos21/",
                   PlaceholderName,
                   "#readme\",\n  \"repository\": {\n    \"type\": \"git\",\n    \"url\": \"git+https://github.com/Neos21/",
                   PlaceholderName,
                   ".git\"\n  },\n  \"bugs\": {\n    \"url\": \"https://github.com/Neos21/",
                   PlaceholderName,
                   "/issues\"\n  },\n  \"funding\": {\n    \"type\": \"github\",\n    \"url\": \"https://github.com/sponsors/Neos21\"\n  }\n}\n">>],
    [fileName |-> <<".nojekyll">>, subDirectory |-> Undefined,
     content |-> <<>>]
>>

\* path.join(subDirectory ?? '', fileName), as segments
fileRelativePath(templateFile) ==
    IF Nullish(templateFile.subDirectory, <<>>) = <<>>
    THEN <<templateFile.fileName>>
    ELSE <<templateFile.subDirectory, templateFile.fileName>>

\* content.replace(/__REPOSITORY_NAME__/g, repositoryName)
\*        .replace(/__DESCRIPTION__/g, description)
replacedContent(content, name, desc) ==
    ReplaceAll(ReplaceAll(content, PlaceholderName, name),
               PlaceholderDescription, desc)

---------------------------------------------------------------------------
(* The state of one run of init.js as a record, and the functions of       *)
(* init.js as operators from the state before the call to the state after  *)
(* it, the continuation in the main function included.                     *)

Cur == [argv |-> argv, ghToken |-> ghToken, pc |-> pc,
        templateIndex |-> templateIndex, fs |-> fs, remote |-> remote,
        httpRequests |-> httpRequests, commands |-> commands,
        prompts |-> prompts, gitConfig |-> gitConfig, writes |-> writes,
        reported |-> reported, error |-> error, finished |-> finished]

Become(s) ==
    /\ argv' = s.argv
    /\ ghToken' = s.ghToken
    /\ pc' = s.pc
    /\ templateIndex' = s.templateIndex
    /\ fs' = s.fs
    /\ remote' = s.remote
    /\ httpRequests' = s.httpRequests
    /\ commands' = s.commands
    /\ prompts' = s.prompts
    /\ gitConfig' = s.gitConfig
    /\ writes' = s.writes
    /\ reported' = s.reported
    /\ error' = s.error
    /\ finished' = s.finished

\* A catch that logs the error and lets the step be taken again.
Catch_goesOn(s, thrown) == [s EXCEPT !.reported = "error", !.error = thrown]

\* The top-level catch: console.error('\nError :'); console.error(error)
Catch(s, thrown) == [s EXCEPT !.pc = "done", !.reported = "error", !.error = thrown]

\* A readText call: the message is shown and the trimmed input returned.
Prompted(s, message, file, raw) ==
    [s EXCEPT !.prompts = Append(@, [message |-> message, file |-> file,
                                     answer |-> readText(raw)])]

\* main with an empty answer to 'Start?' taken as the default yes.
main_emptyIsYes(s, raw) ==
    IF TooFewArguments(s.argv)
    THEN [s EXCEPT !.pc = "done", !.reported = "usage"]
    ELSE IF readText(raw) /= Yes /\ readText(raw) /= <<>>
    THEN [Prompted(s, "Start?", <<>>, raw) EXCEPT !.pc = "done"]
    ELSE [Prompted(s, "Start?", <<>>, raw) EXCEPT !.pc = "createGitHubRepository"]

\* The main function up to its first await of a function of the sequence:
\* the argument check and the 'Start?' confirmation.
main(s, raw) ==
    IF TooFewArguments(s.argv)
    THEN [s EXCEPT !.pc = "done", !.reported = "usage"]
    ELSE IF readText(raw) /= Yes
    THEN [Prompted(s, "Start?", <<>>, raw) EXCEPT !.pc = "done"]
    ELSE [Prompted(s, "Start?", <<>>, raw) EXCEPT !.pc = "createGitHubRepository"]

\* createGitHubRepository without the check of the token: the request is
\* sent with no Authorization header.
createGitHubRepository_noTokenCheck(s, outcome) ==
    LET response == request(outcome)
        sent == [s EXCEPT !.httpRequests = @ + 1,
                          !.remote = @ \/ (outcome = "created" /\ Truthy(s.ghToken))]
    IN  IF response.rejected /= "none" THEN Catch(sent, response.rejected)
        ELSE IF JsonParseThrows(response.data) THEN Catch(sent, "SyntaxError")
        ELSE [sent EXCEPT !.pc = "gitClone"]

createGitHubRepository(s, outcome) ==
    IF ~Truthy(s.ghToken)
    THEN [s EXCEPT !.pc = "gitClone"]
    ELSE LET response == request(outcome)
             sent == [s EXCEPT !.httpRequests = @ + 1,
                               !.remote = @ \/ outcome = "created"]
         IN  IF response.rejected /= "none" THEN Catch(sent, response.rejected)
             ELSE IF JsonParseThrows(response.data) THEN Catch(sent, "SyntaxError")
             ELSE [sent EXCEPT !.pc = "gitClone"]

\* `git clone 'https://Neos21@github.com/Neos21/${repositoryName}.git'`
CloneCommand(name) ==
    <<"git clone 'https://Neos21@github.com/Neos21/">> \o name \o <<".git'">>

\* `Cloning into '${repositoryName}'...`
CloningLine(name) == <<"Cloning into '">> \o name \o <<"'...">>

\* The catch of gitClone looking at the standard error alone.
CloneErrorIsNoProblem_stderrOnly(thrown, name) == thrown.stderr = CloningLine(name)

\* The catch of gitClone lets the thrown value pass when this holds.
CloneErrorIsNoProblem(thrown, name) ==
    ~(thrown.stdout /= <<>> \/ thrown.stderr /= CloningLine(name))

\* A command run through executeCommand: the log of commands, and what a
\* command that ended with code 0 did to the file system and the git config.
Executed(s, command, cwd, result, outcome, made, keys) ==
    IF ~result.ran THEN s
    ELSE [s EXCEPT !.commands = Append(@, [command |-> command, cwd |-> cwd,
                                          code |-> outcome.code,
                                          stdout |-> outcome.stdout,
                                          stderr |-> outcome.stderr]),
                   !.fs = IF outcome.code = 0 /\ made /= <<>> THEN Mkdir(@, made) ELSE @,
                   !.gitConfig = IF outcome.code = 0 THEN @ \cup keys ELSE @]

\* gitClone without the check after the command.
CloneSucceeded_unchecked(files, repoDirectoryPath) == TRUE

\* The postcondition of gitClone: the repository directory must exist.
CloneSucceeded(files, repoDirectoryPath) == isFileExist(files, repoDirectoryPath)

\* gitClone: the state after the call, with what it returned (the proceed
\* signal) or threw.
gitClone(s, raw, outcome) ==
    LET name == repositoryName(s.argv)
        root == ghRootDirectoryPath(s.argv)
        repo == ghRepoDirectoryPath(s.argv)
        asked == Prompted(s, "  Clone Repo?", <<>>, raw)
        result == executeCommand(CloneCommand(name), root, asked.fs, outcome)
        ran == Executed(asked, CloneCommand(name), root, result, outcome,
                        CloneDirectoryPath(s.argv), {})
    IN  IF isFileExist(s.fs, repo)
        THEN [state |-> s, returned |-> TRUE, thrown |-> "none"]
        ELSE IF readText(raw) /= Yes
        THEN [state |-> asked, returned |-> FALSE, thrown |-> "none"]
        ELSE IF result.thrown /= "none" /\ ~CloneErrorIsNoProblem(result, name)
        THEN [state |-> ran, returned |-> FALSE, thrown |-> result.thrown]
        ELSE IF ~CloneSucceeded(ran.fs, repo)
        THEN [state |-> ran, returned |-> FALSE,
              thrown |-> "GitHub Repository Does Not Exist"]
        ELSE [state |-> ran, returned |-> TRUE, thrown |-> "none"]

\* The call of gitClone with its return value dropped.
AfterGitClone_ignoresReturn(call) ==
    IF call.thrown /= "none" THEN Catch(call.state, call.thrown)
    ELSE [call.state EXCEPT !.pc = "changeGitConfig"]

\* if(!await gitClone(...)) return;  // Aborted
AfterGitClone(call) ==
    IF call.thrown /= "none" THEN Catch(call.state, call.thrown)
    ELSE IF ~call.returned THEN [call.state EXCEPT !.pc = "done"]
    ELSE [call.state EXCEPT !.pc = "changeGitConfig"]

ConfigName == <<"git config user.name 'Neos21'">>
ConfigEmail == <<"git config user.email 'neos21@gmail.com'">>
ConfigList == <<"git config --local --list | grep -e 'user'">>

changeGitConfig(s, raw, outcome1, outcome2, outcome3) ==
    LET repo == ghRepoDirectoryPath(s.argv)
        asked == Prompted(s, "  Change Git Config?", <<>>, raw)
        result1 == executeCommand(ConfigName, repo, asked.fs, outcome1)
        ran1 == Executed(asked, ConfigName, repo, result1, outcome1, <<>>, {"user.name"})
        result2 == executeCommand(ConfigEmail, repo, ran1.fs, outcome2)
        ran2 == Executed(ran1, ConfigEmail, repo, result2, outcome2, <<>>, {"user.email"})
        result3 == executeCommand(ConfigList, repo, ran2.fs, outcome3)
        ran3 == Executed(ran2, ConfigList, repo, result3, outcome3, <<>>, {})
    IN  IF readText(raw) /= Yes THEN [asked EXCEPT !.pc = "createTemplateFile"]
        ELSE IF result1.thrown /= "none" THEN Catch(ran1, result1.thrown)
        ELSE IF result2.thrown /= "none" THEN Catch(ran2, result2.thrown)
        ELSE IF result3.thrown /= "none" THEN Catch(ran3, result3.thrown)
        ELSE [ran3 EXCEPT !.pc = "createTemplateFile"]

\* The for-of loop of main after one createTemplateFile call returned.
NextTemplate(s) ==
    IF s.templateIndex < Len(templateFiles)
    THEN [s EXCEPT !.templateIndex = @ + 1]
    ELSE [s EXCEPT !.pc = "done", !.finished = TRUE]

\* createTemplateFile with a declined file ending the loop.
createTemplateFile_declineEnds(s, templateFile, raw, mkdirOutcome, writeOutcome) ==
    LET repo == ghRepoDirectoryPath(s.argv)
        relative == fileRelativePath(templateFile)
        target == repo \o relative
        message == IF isFileExist(s.fs, target) THEN "Overwrite It?" ELSE "Create?"
        asked == Prompted(s, message, relative, raw)
        text == replacedContent(templateFile.content, repositoryName(s.argv),
                                description(s.argv))
        subDirectoryPath == Append(repo, templateFile.subDirectory)
        made == IF Truthy(templateFile.subDirectory)
                THEN [asked EXCEPT !.fs = Mkdir(@, subDirectoryPath),
                                   !.writes = Append(@, subDirectoryPath)]
                ELSE asked
        written == [made EXCEPT !.fs = WriteFile(@, target, text),
                                !.writes = Append(@, target)]
    IN  IF readText(raw) /= Yes THEN [asked EXCEPT !.pc = "done"]
        ELSE IF Truthy(templateFile.subDirectory)
                /\ ~MkdirOk(asked.fs, subDirectoryPath, mkdirOutcome)
        THEN Catch(asked, "MkdirError")
        ELSE IF ~WriteFileOk(made.fs, target, writeOutcome)
        THEN Catch(made, "WriteFileError")
        ELSE NextTemplate(written)

createTemplateFile(s, templateFile, raw, mkdirOutcome, writeOutcome) ==
    LET repo == ghRepoDirectoryPath(s.argv)
        relative == fileRelativePath(templateFile)
        target == repo \o relative
        message == IF isFileExist(s.fs, target) THEN "Overwrite It?" ELSE "Create?"
        asked == Prompted(s, message, relative, raw)
        text == replacedContent(templateFile.content, repositoryName(s.argv),
                                description(s.argv))
        subDirectoryPath == Append(repo, templateFile.subDirectory)
        made == IF Truthy(templateFile.subDirectory)
                THEN [asked EXCEPT !.fs = Mkdir(@, subDirectoryPath),
                                   !.writes = Append(@, subDirectoryPath)]
                ELSE asked
        written == [made EXCEPT !.fs = WriteFile(@, target, text),
                                !.writes = Append(@, target)]
    IN  IF readText(raw) /= Yes THEN NextTemplate(asked)
        ELSE IF Truthy(templateFile.subDirectory)
                /\ ~MkdirOk(asked.fs, subDirectoryPath, mkdirOutcome)
        THEN Catch(asked, "MkdirError")
        ELSE IF ~WriteFileOk(made.fs, target, writeOutcome)
        THEN Catch(made, "WriteFileError")
        ELSE NextTemplate(written)

---------------------------------------------------------------------------
(* The inputs of a run of init.js *)

\* Most template files that exist in the repository directory before the run.
MaxPreexisting == 1

\* What the user types at a prompt, as the data chunk stdin delivers.
RawAnswers == {<<"y", "\n">>, <<" ", "y", "\n">>, <<"\n">>, <<"Y", "\n">>}

Demo == <<"demo">>
ADemoRepo == <<"A demo repo">>

\* The command lines: no argument, one argument, two arguments (the name
\* padded with white space), a description holding "$$", a root directory
\* with a repo directory name other than the repository name, and an empty
\* root directory argument with the repo directory name given.
Invocations == {
    <<>>,
    <<Demo>>,
    <<<<" ", "demo">>, ADemoRepo>>,
    <<Demo, <<"save", " ", "$", "$">>>>,
    <<Demo, ADemoRepo, <<"work">>, <<"other">>>>,
    <<Demo, ADemoRepo, <<>>, Demo>>
}

Tokens == {Undefined, <<>>, <<"ghp_token">>}

ExecOk == [code |-> 0, stdout |-> <<>>, stderr |-> <<>>]

\* What exec can end with for the clone command.
CloneOutcomes(name) == {
    ExecOk,
    [code |-> 0, stdout |-> <<>>, stderr |-> CloningLine(name) \o <<"\n">>],
    [code |-> 0, stdout |-> <<"done", "\n">>, stderr |-> CloningLine(name) \o <<"\n">>],
    [code |-> 0, stdout |-> <<>>,
     stderr |-> CloningLine(name) \o <<"\n", "warning: You appear to have cloned an empty repository.", "\n">>],
    [code |-> 0, stdout |-> <<>>, stderr |-> CloningLine(<<"other">>) \o <<"\n">>],
    [code |-> 1, stdout |-> <<>>, stderr |-> <<>>],
    [code |-> 1, stdout |-> <<>>, stderr |-> CloningLine(name)],
    [code |-> 1, stdout |-> <<>>, stderr |-> CloningLine(name) \o <<"\n">>],
    [code |-> 1, stdout |-> <<>>,
     stderr |-> CloningLine(name) \o <<"\n", "fatal: repository not found", "\n">>]
}

\* What exec can end with for a git config command.
ConfigOutcomes == {
    [code |-> 0, stdout |-> <<"user.name=Neos21\nuser.email=neos21@gmail.com", "\n">>,
     stderr |-> <<>>],
    [code |-> 0, stdout |-> <<>>, stderr |-> <<"warning: unable to access config", "\n">>],
    [code |-> 1, stdout |-> <<>>, stderr |-> <<"fatal: not in a git directory", "\n">>]
}

FsOutcomes == {"ok", "error"}

OldContent == <<"old content">>

\* The file systems a run can start in: the root directory alone, or with the
\* repository directory holding some of the template files already.
Layouts(a) ==
    LET root == ghRootDirectoryPath(a)
        repo == ghRepoDirectoryPath(a)
        Old(S) == LET relative(i) == fileRelativePath(templateFiles[i])
                      paths == {repo \o relative(i) : i \in S}
                      dirs == UNION {MkdirPaths(Parent(p)) : p \in paths}
                  IN  [p \in paths |-> File(OldContent)]
                      @@ [p \in dirs \cup MkdirPaths(repo) |-> Dir]
    IN  {[p \in MkdirPaths(root) |-> Dir]}
        \cup {Old(S) : S \in {T \in SUBSET (1..Len(templateFiles)) :
                                   Cardinality(T) <= MaxPreexisting}}

SetupIdle ==
    /\ spc = "idle"
    /\ sentry = 0
    /\ sprompts = 0
    /\ sempties = 0
    /\ sanswer = Undefined
    /\ sdst = <<>>
    /\ sdirs = {}

Init ==
    /\ argv \in Invocations
    /\ ghToken \in Tokens
    /\ pc = "main"
    /\ templateIndex = 1
    /\ fs \in (IF TooFewArguments(argv)
               THEN {[p \in {<<HomeGitHub>>} |-> Dir]}
               ELSE Layouts(argv))
    /\ remote = FALSE
    /\ httpRequests = 0
    /\ commands = <<>>
    /\ prompts = <<>>
    /\ gitConfig = {}
    /\ writes = <<>>
    /\ reported = "none"
    /\ error = "none"
    /\ finished = FALSE
    /\ SetupIdle

---------------------------------------------------------------------------
(* The steps of a run of init.js *)

Main ==
    /\ pc = "main"
    /\ \E raw \in RawAnswers : Become(main(Cur, raw))
    /\ UNCHANGED setupVars

CreateGitHubRepository ==
    /\ pc = "createGitHubRepository"
    /\ \E outcome \in RequestOutcomes : Become(createGitHubRepository(Cur, outcome))
    /\ UNCHANGED setupVars

GitClone ==
    /\ pc = "gitClone"
    /\ \E raw \in RawAnswers, outcome \in CloneOutcomes(repositoryName(argv)) :
          Become(AfterGitClone(gitClone(Cur, raw, outcome)))
    /\ UNCHANGED setupVars

ChangeGitConfig ==
    /\ pc = "changeGitConfig"
    /\ \E raw \in RawAnswers, outcome1, outcome2, outcome3 \in ConfigOutcomes :
          Become(changeGitConfig(Cur, raw, outcome1, outcome2, outcome3))
    /\ UNCHANGED setupVars

CreateTemplateFile ==
    /\ pc = "createTemplateFile"
    /\ \E raw \in RawAnswers, mkdirOutcome, writeOutcome \in FsOutcomes :
          Become(createTemplateFile(Cur, templateFiles[templateIndex], raw,
                                    mkdirOutcome, writeOutcome))
    /\ UNCHANGED setupVars

Next ==
    \/ Main
    \/ CreateGitHubRepository
    \/ GitClone
    \/ ChangeGitConfig
    \/ CreateTemplateFile

Spec == Init /\ [][Next]_vars

---------------------------------------------------------------------------
(* setup.bash *)

\* Most empty lines entered in a row at one confirmation.
MaxEmptyLines == 2

\* The copy calls of the script, in order.
CopyCalls == <<
    [fn |-> "copy_root_file", src_sub_dir |-> "", dst_sub_dir |-> "",
     file_name |-> ".gitignore"],
    [fn |-> "copy_root_file", src_sub_dir |-> "", dst_sub_dir |-> "",
     file_name |-> "README.md"],
    [fn |-> "copy_sub_dir_file", src_sub_dir |-> ".github", dst_sub_dir |-> ".github",
     file_name |-> "FUNDING.yml"],
    [fn |-> "copy_root_file", src_sub_dir |-> "", dst_sub_dir |-> "",
     file_name |-> "package.json"],
    [fn |-> "copy_root_file", src_sub_dir |-> "", dst_sub_dir |-> "",
     file_name |-> "LICENSE"],
    [fn |-> "copy_root_file", src_sub_dir |-> "", dst_sub_dir |-> "",
     file_name |-> ".npmignore"],
    [fn |-> "copy_sub_dir_file", src_sub_dir |-> ".github/_workflows",
     dst_sub_dir |-> ".github/workflows", file_name |-> "publish-to-gpr.yaml"],
    [fn |-> "copy_sub_dir_file", src_sub_dir |-> ".github/_workflows",
     dst_sub_dir |-> ".github/workflows", file_name |-> "publish-to-npm.yaml"],
    [fn |-> "copy_sub_dir_file", src_sub_dir |-> ".github/_workflows",
     dst_sub_dir |-> ".github/workflows", file_name |-> "deploy-to-github-pages.yaml"]
>>

\* The lines a user enters, without the line end.
Lines == {<<>>, <<" ">>, <<"y">>, <<"Y", "e", "s">>, <<"n">>, <<" ", "y">>}

\* The characters `read` strips from both ends of the line.
IfsWhiteSpace == {" ", "\t"}

RECURSIVE StripStart(_)
StripStart(s) ==
    IF s /= <<>> /\ Head(s) \in IfsWhiteSpace THEN StripStart(Tail(s)) ELSE s

RECURSIVE StripEnd(_)
StripEnd(s) ==
    IF s /= <<>> /\ s[Len(s)] \in IfsWhiteSpace
    THEN StripEnd(SubSeq(s, 1, Len(s) - 1))
    ELSE s

\* read -p "${message} (y/N) : " confirm
Read(line) == StripEnd(StripStart(line))

\* A confirm whose loop ends on any line.
ConfirmBreaks_always(value) == TRUE

\* if [ -n "${confirm}" ]; then break; fi
ConfirmBreaks(value) == value /= <<>>

\* "${confirm:0:1}"
FirstCharacter(value) == IF value = <<>> THEN <<>> ELSE <<Head(value)>>

\* One pass of the loop of confirm on the line read, and what follows the
\* loop: "again" when the loop goes round, else the return status.
confirm(line) ==
    LET value == Read(line)
    IN  IF ~ConfirmBreaks(value) THEN "again"
        ELSE IF FirstCharacter(value) /= <<"y">> /\ FirstCharacter(value) /= <<"Y">>
        THEN "1"
        ELSE "0"

DstPath(call) ==
    IF call.fn = "copy_root_file" THEN <<call.file_name>>
    ELSE <<call.dst_sub_dir, call.file_name>>

\* The files the destination directory can hold before the run.
DstLayouts ==
    {[p \in {DstPath(CopyCalls[i]) : i \in S} |-> "old"] :
        S \in {T \in SUBSET (1..Len(CopyCalls)) : Cardinality(T) <= MaxPreexisting}}

InitIdle ==
    /\ argv = <<>>
    /\ ghToken = Undefined
    /\ pc = "idle"
    /\ templateIndex = 1
    /\ fs = <<>>
    /\ remote = FALSE
    /\ httpRequests = 0
    /\ commands = <<>>
    /\ prompts = <<>>
    /\ gitConfig = {}
    /\ writes = <<>>
    /\ reported = "none"
    /\ error = "none"
    /\ finished = FALSE

\* The script has printed the paths and shows the start confirmation.
SetupInit ==
    /\ spc = "confirm"
    /\ sentry = 0
    /\ sprompts = 1
    /\ sempties = 0
    /\ sanswer = Undefined
    /\ sdst \in DstLayouts
    /\ sdirs = {}
    /\ InitIdle

\* The confirm call goes round its loop: the prompt is shown again.
AskAgain ==
    /\ sempties < MaxEmptyLines
    /\ sprompts' = sprompts + 1
    /\ sempties' = sempties + 1
    /\ UNCHANGED <<spc, sentry, sanswer, sdst, sdirs>>

\* The confirm call returned on `line`; the script goes on with copy call
\* `entry`, whose confirm shows its prompt, or ends after the last one.
Returned(line, entry) ==
    /\ sanswer' = Read(line)
    /\ sentry' = entry
    /\ spc' = IF entry > Len(CopyCalls) THEN "finished" ELSE "copy"
    /\ sprompts' = IF entry > Len(CopyCalls) THEN 0 ELSE 1
    /\ sempties' = 0

\* cp -i: copies when the destination is absent or the overwrite question is
\* answered yes; a missing source or a refused write copies nothing.
Cp(path, overwrite, cpOutcome) ==
    IF cpOutcome = "ok" /\ (path \in DOMAIN sdst => overwrite)
    THEN sdst' = (path :> "copied") @@ sdst
    ELSE sdst' = sdst

\* if ! confirm 'セットアップ作業を開始しますか？'; then ... exit 1; fi
StartConfirm ==
    /\ spc = "confirm"
    /\ \E line \in Lines :
          CASE confirm(line) = "again" -> AskAgain
            [] confirm(line) = "1" ->
                  /\ spc' = "exit 1"
                  /\ sanswer' = Read(line)
                  /\ sprompts' = 0
                  /\ sempties' = 0
                  /\ UNCHANGED <<sentry, sdst, sdirs>>
            [] OTHER -> Returned(line, 1) /\ UNCHANGED <<sdst, sdirs>>
    /\ UNCHANGED initVars

copy_root_file ==
    /\ spc = "copy"
    /\ CopyCalls[sentry].fn = "copy_root_file"
    /\ \E line \in Lines, overwrite \in BOOLEAN, cpOutcome \in FsOutcomes :
          CASE confirm(line) = "again" -> AskAgain
            [] confirm(line) = "1" ->
                  Returned(line, sentry + 1) /\ UNCHANGED <<sdst, sdirs>>
            [] OTHER ->
                  /\ Returned(line, sentry + 1)
                  /\ Cp(DstPath(CopyCalls[sentry]), overwrite, cpOutcome)
                  /\ UNCHANGED sdirs
    /\ UNCHANGED initVars

copy_sub_dir_file ==
    /\ spc = "copy"
    /\ CopyCalls[sentry].fn = "copy_sub_dir_file"
    /\ \E line \in Lines, overwrite \in BOOLEAN, cpOutcome \in FsOutcomes :
          CASE confirm(line) = "again" -> AskAgain
            [] confirm(line) = "1" ->
                  Returned(line, sentry + 1) /\ UNCHANGED <<sdst, sdirs>>
            [] OTHER ->
                  /\ Returned(line, sentry + 1)
                  /\ sdirs' = sdirs \cup {CopyCalls[sentry].dst_sub_dir}
                  /\ Cp(DstPath(CopyCalls[sentry]), overwrite, cpOutcome)
    /\ UNCHANGED initVars

SetupNext ==
    \/ StartConfirm
    \/ copy_root_file
    \/ copy_sub_dir_file

SetupSpec == SetupInit /\ [][SetupNext]_vars

---------------------------------------------------------------------------
(* Properties of init.js *)

\* The prompts of the run that showed `message`.
Asked(message) == {i \in 1..Len(prompts) : prompts[i].message = message}

\* The entries of the command log that ran a git config command.
ConfigCommands ==
    {i \in 1..Len(commands) : commands[i].command \in {ConfigName, ConfigEmail, ConfigList}}

\* The prompts of the run that belong to a template file.
TemplatePrompts == Asked("Create?") \cup Asked("Overwrite It?")

\* C1: with at least two arguments, an answer to 'Start?' other than exactly
\* 'y' (the empty answer included) ends the run with no HTTP request, no shell
\* command, no file or directory write and no further prompt.
C1_StartDeclined ==
    (Len(argv) >= 2 /\ prompts /= <<>> /\ prompts[1].answer /= <<"y">>) =>
        /\ prompts[1].message = "Start?"
        /\ Len(prompts) = 1
        /\ pc = "done"
        /\ httpRequests = 0
        /\ ~remote
        /\ commands = <<>>
        /\ gitConfig = {}
        /\ writes = <<>>
        /\ reported = "none"

\* The run was declined at 'Start?' with an empty line and has ended.
C1_Witness ==
    /\ Len(argv) >= 2
    /\ pc = "done"
    /\ prompts /= <<>>
    /\ prompts[1].message = "Start?"
    /\ prompts[1].answer = <<>>

\* C2: when the repository directory is absent and 'Clone Repo?' is answered
\* with anything but 'y', no git config command runs, no template prompt is
\* shown, no template file is written and the run ends with no error reported.
C2_CloneDeclined ==
    \A i \in Asked("  Clone Repo?") :
        prompts[i].answer /= <<"y">> =>
            /\ i = Len(prompts)
            /\ pc = "done"
            /\ ConfigCommands = {}
            /\ commands = <<>>
            /\ gitConfig = {}
            /\ TemplatePrompts = {}
            /\ writes = <<>>
            /\ reported = "none"
            /\ error = "none"

\* The clone was declined with an upper-case 'Y' and the run has ended.
C2_Witness ==
    /\ pc = "done"
    /\ \E i \in Asked("  Clone Repo?") : prompts[i].answer = <<"Y">>
    /\ ghRepoDirectoryPath(argv) \notin DOMAIN fs

\* C3: when the repository directory exists as gitClone is called, gitClone
\* shows no prompt, runs no command, makes no request and returns true, so
\* that the identity configuration is the next step.
C3_ExistingDirectorySkipsClone ==
    [][(pc = "gitClone" /\ ghRepoDirectoryPath(argv) \in DOMAIN fs) =>
          /\ pc' = "changeGitConfig"
          /\ prompts' = prompts
          /\ commands' = commands
          /\ httpRequests' = httpRequests
          /\ fs' = fs
          /\ reported' = "none"]_vars

\* gitClone returned true without having asked or run anything, and the
\* steps after it went on to the template files.
C3_Witness ==
    /\ pc = "createTemplateFile"
    /\ Asked("  Clone Repo?") = {}
    /\ Asked("  Change Git Config?") /= {}
    /\ \A i \in 1..Len(commands) : commands[i].command /= CloneCommand(repositoryName(argv))


\* The entries of the command log that ran the clone command.
CloneRuns ==
    {i \in 1..Len(commands) :
        commands[i].command =
            <<"git clone 'https://Neos21@github.com/Neos21/">> \o Trim(argv[1]) \o <<".git'">>}

\* The line git prints on standard error for the repository of this run.
ExpectedLine == <<"Cloning into '">> \o Trim(argv[1]) \o <<"'...">>

\* Neither the identity configuration nor a template file was reached.
NothingAfterClone ==
    /\ Asked("  Change Git Config?") = {}
    /\ ConfigCommands = {}
    /\ gitConfig = {}
    /\ TemplatePrompts = {}
    /\ writes = <<>>

\* gitClone raised the outcome of clone run `i` as a failure: the top-level
\* handler reported it and the run ended there.
CloneFailure(i) ==
    /\ reported = "error"
    /\ pc = "done"
    /\ error \in {"ExecError", "result"}
    /\ i = Len(commands)
    /\ NothingAfterClone

\* The outcome `e` has empty trimmed standard output and exactly the
\* expected line as trimmed standard error.
OnlyExpectedLine(e) == Trim(e.stdout) = <<>> /\ Trim(e.stderr) = ExpectedLine

\* C4 as claimed: for every outcome of the clone command, the outcome is no
\* failure when the trimmed standard output is empty and the trimmed standard
\* error is exactly the expected line, and every other non-empty standard
\* error is a failure that ends the run before the identity configuration
\* and the template files.
C4_Original ==
    \A i \in CloneRuns :
        /\ OnlyExpectedLine(commands[i]) => ~CloneFailure(i)
        /\ (Trim(commands[i].stderr) /= <<>> /\ ~OnlyExpectedLine(commands[i])) =>
              CloneFailure(i)

\* C4 as amended: the claim holds of the outcomes with exit status 0; on a
\* non-zero exit status the streams are compared untrimmed, and the outcome is
\* a failure unless the standard output is empty and the standard error is
\* exactly the expected line with nothing after it.
C4_Amended ==
    \A i \in CloneRuns :
        /\ commands[i].code = 0 =>
              /\ OnlyExpectedLine(commands[i]) => ~CloneFailure(i)
              /\ (Trim(commands[i].stderr) /= <<>> /\ ~OnlyExpectedLine(commands[i])) =>
                    CloneFailure(i)
        /\ commands[i].code /= 0 =>
              (CloneFailure(i) <=>
                  ~(commands[i].stdout = <<>> /\ commands[i].stderr = ExpectedLine))

\* The clone command ended with status 0, nothing on standard output and the
\* expected line (with its line end) on standard error, and the run went on.
C4_Witness ==
    /\ pc = "changeGitConfig"
    /\ \E i \in CloneRuns :
          /\ commands[i].code = 0
          /\ commands[i].stdout = <<>>
          /\ commands[i].stderr = ExpectedLine \o <<"\n">>

\* C10: the steps after gitClone are only reached, and git config commands
\* and template writes only happen, with the repository directory (the root
\* directory joined with the repo directory name, by default the repository
\* name) in existence; an accepted clone whose command was no failure but left
\* that directory absent ends the run with the error of gitClone, not with the
\* clean return of a declined clone.
C10_DestinationExists ==
    Len(argv) >= 2 =>
        /\ (pc \in {"changeGitConfig", "createTemplateFile"} \/ finished
              \/ ConfigCommands /= {} \/ gitConfig /= {} \/ writes /= <<>>
              \/ Asked("  Change Git Config?") /= {} \/ TemplatePrompts /= {}) =>
                 ghRepoDirectoryPath(argv) \in DOMAIN fs
        /\ \A i \in CloneRuns :
              (~CloneFailure(i) /\ ghRepoDirectoryPath(argv) \notin DOMAIN fs) =>
                  /\ pc = "done"
                  /\ reported = "error"
                  /\ error = "GitHub Repository Does Not Exist"

\* The repo directory name differs from the repository name: the clone
\* command made <root>/<repository name>, the repository directory is still
\* absent and gitClone has thrown.
C10_Witness ==
    /\ Len(argv) = 4
    /\ argv[4] /= Trim(argv[1])
    /\ \E i \in CloneRuns : commands[i].code = 0
    /\ CloneDirectoryPath(argv) \in DOMAIN fs
    /\ ghRepoDirectoryPath(argv) \notin DOMAIN fs
    /\ error = "GitHub Repository Does Not Exist"

IsPrefix(s, u) == Len(s) <= Len(u) /\ SubSeq(u, 1, Len(s)) = s

\* C8: a failure raised by a step is caught by the top-level handler and ends
\* the run; after it no prompt, request, command or write happens; and the
\* failing step leaves what was done before it in place.
C8_FailureEndsRun ==
    /\ [](error /= "none" => (reported = "error" /\ pc = "done" /\ ~finished))
    /\ [][error /= "none" =>
            UNCHANGED <<prompts, httpRequests, commands, writes, fs, remote, gitConfig>>]_vars
    /\ [][(error = "none" /\ error' /= "none") =>
            /\ remote => remote'
            /\ \A p \in DOMAIN fs : p \in DOMAIN fs' /\ fs'[p] = fs[p]
            /\ gitConfig \subseteq gitConfig'
            /\ IsPrefix(writes, writes')
            /\ IsPrefix(commands, commands')]_vars

\* A file write failed after the remote repository was created, the clone
\* ran and a template file was written; all three are still there.
C8_Witness ==
    /\ error = "WriteFileError"
    /\ pc = "done"
    /\ remote
    /\ CloneRuns /= {}
    /\ ghRepoDirectoryPath(argv) \in DOMAIN fs
    /\ writes /= <<>>
    /\ \A k \in 1..Len(writes) : writes[k] \in DOMAIN fs


\* Two states of a run that differ at most in the credential and in what the
\* creation request did.
SameButCreation(s, u) ==
    [s EXCEPT !.ghToken = <<>>, !.httpRequests = 0, !.remote = FALSE]
        = [u EXCEPT !.ghToken = <<>>, !.httpRequests = 0, !.remote = FALSE]

\* The state of the run with the same arguments, answers, file system and
\* command outcomes in which the credential is set and the creation request
\* succeeded.
WithCredential(s) ==
    IF s.pc \in {"main", "createGitHubRepository"}
    THEN [s EXCEPT !.ghToken = <<"ghp_token">>]
    ELSE [s EXCEPT !.ghToken = <<"ghp_token">>, !.httpRequests = 1, !.remote = TRUE]

\* C5: with GH_TOKEN unset or empty, createGitHubRepository sends no request
\* and raises no error, and from every state of the run each step, given the
\* same answers and outcomes, leads to the state it leads to in the run with
\* the credential set and the creation request succeeded, the credential and
\* the request apart.
C5_NoCredentialSkipsCreation ==
    (ghToken \in {Undefined, <<>>}) =>
        /\ httpRequests = 0
        /\ ~remote
        /\ error \notin {"RequestError", "Request Timeout", "SyntaxError"}
        /\ pc = "createGitHubRepository" =>
              \A outcome \in RequestOutcomes :
                  /\ createGitHubRepository(Cur, outcome).pc = "gitClone"
                  /\ createGitHubRepository(Cur, outcome).reported = "none"
                  /\ SameButCreation(
                        createGitHubRepository(Cur, outcome),
                        createGitHubRepository(WithCredential(Cur), "created"))
        /\ pc = "main" =>
              \A raw \in RawAnswers :
                  SameButCreation(main(Cur, raw), main(WithCredential(Cur), raw))
        /\ pc = "gitClone" =>
              \A raw \in RawAnswers, outcome \in CloneOutcomes(repositoryName(argv)) :
                  SameButCreation(
                      AfterGitClone(gitClone(Cur, raw, outcome)),
                      AfterGitClone(gitClone(WithCredential(Cur), raw, outcome)))
        /\ pc = "changeGitConfig" =>
              \A raw \in RawAnswers, outcome1, outcome2, outcome3 \in ConfigOutcomes :
                  SameButCreation(
                      changeGitConfig(Cur, raw, outcome1, outcome2, outcome3),
                      changeGitConfig(WithCredential(Cur), raw, outcome1, outcome2, outcome3))
        /\ pc = "createTemplateFile" =>
              \A raw \in RawAnswers, mkdirOutcome, writeOutcome \in FsOutcomes :
                  SameButCreation(
                      createTemplateFile(Cur, templateFiles[templateIndex], raw,
                                         mkdirOutcome, writeOutcome),
                      createTemplateFile(WithCredential(Cur), templateFiles[templateIndex],
                                         raw, mkdirOutcome, writeOutcome))

\* A run with an empty GH_TOKEN went through the clone and every template
\* file and finished.
C5_Witness ==
    /\ ghToken = <<>>
    /\ finished
    /\ httpRequests = 0
    /\ CloneRuns /= {}
    /\ Len(writes) = 6

\* The template with each placeholder token replaced by the value as it is.
LiteralReplace(content, name, desc) ==
    Flatten([i \in 1..Len(content) |->
        IF content[i] = "__REPOSITORY_NAME__" THEN name
        ELSE IF content[i] = "__DESCRIPTION__" THEN desc
        ELSE <<content[i]>>])

\* C6 as claimed: the content written for a template file holds neither
\* placeholder token and is the template with every __REPOSITORY_NAME__
\* replaced by the exact repository name and every __DESCRIPTION__ by the
\* exact description.
C6_Original ==
    \A i \in 1..Len(templateFiles) :
        LET target == ghRepoDirectoryPath(argv) \o fileRelativePath(templateFiles[i])
        IN  (\E k \in 1..Len(writes) : writes[k] = target) =>
                /\ \A j \in 1..Len(fs[target].content) :
                      fs[target].content[j] \notin {"__REPOSITORY_NAME__", "__DESCRIPTION__"}
                /\ fs[target].content =
                      LiteralReplace(templateFiles[i].content, Trim(argv[1]), Trim(argv[2]))


\* The destination paths of the template files, in the order of the claim.
FixedOrder == <<
    <<<<".gitignore">>>>,
    <<<<"README.md">>>>,
    <<<<".github">>, <<"FUNDING.yml">>>>,
    <<<<"package.json">>>>,
    <<<<".nojekyll">>>>
>>

IsTemplatePrompt(prompt) == prompt.message \in {"Create?", "Overwrite It?"}

\* C7: in the loop over the template files, a file whose prompt is answered
\* with anything but 'y' is left as it was (an existing file keeps its
\* content, an absent one stays absent, no sub directory is made) and the
\* loop goes on to the next file; a file whose prompt is answered 'y' is
\* written, and nothing but that file and its sub directory changes; the files
\* are offered in the order .gitignore, README.md, .github/FUNDING.yml,
\* package.json, .nojekyll.
C7_DeclineSkipsOnlyThatFile ==
    /\ [][(pc = "createTemplateFile" /\ prompts' /= prompts) =>
            LET relative == FixedOrder[templateIndex]
                target == ghRepoDirectoryPath(argv) \o relative
                asked == prompts'[Len(prompts')]
                goesOn == IF templateIndex < 5
                          THEN pc' = "createTemplateFile" /\ templateIndex' = templateIndex + 1
                          ELSE pc' = "done" /\ finished'
            IN  /\ Len(prompts') = Len(prompts) + 1
                /\ asked.file = relative
                /\ asked.message = IF target \in DOMAIN fs THEN "Overwrite It?" ELSE "Create?"
                /\ asked.answer /= <<"y">> =>
                      /\ fs' = fs
                      /\ writes' = writes
                      /\ reported' = "none"
                      /\ goesOn
                /\ (asked.answer = <<"y">> /\ reported' = "none") =>
                      /\ fs'[target] =
                            File(replacedContent(templateFiles[templateIndex].content,
                                                 repositoryName(argv), description(argv)))
                      /\ writes'[Len(writes')] = target
                      /\ \A p \in DOMAIN fs \ {target} : fs'[p] = fs[p]
                      /\ DOMAIN fs' \subseteq DOMAIN fs \cup {target, Parent(target)}
                      /\ goesOn]_vars
    /\ [](LET shown == SelectSeq(prompts, IsTemplatePrompt)
          IN  /\ \A k \in 1..Len(shown) : k <= 5 /\ shown[k].file = FixedOrder[k]
              /\ finished => Len(shown) = 5)

\* README.md existed, its overwrite was declined and it still holds its old
\* content, while the other four files were written and the run finished.
C7_Witness ==
    /\ finished
    /\ \E i \in Asked("Overwrite It?") :
          prompts[i].file = <<<<"README.md">>>> /\ prompts[i].answer /= <<"y">>
    /\ fs[ghRepoDirectoryPath(argv) \o <<<<"README.md">>>>] = File(OldContent)
    /\ \A k \in {1, 3, 4, 5} :
          \E w \in 1..Len(writes) : writes[w] = ghRepoDirectoryPath(argv) \o FixedOrder[k]

---------------------------------------------------------------------------
(* Properties of setup.bash *)

\* C9 as claimed: an empty line at the start confirmation shows the prompt
\* again, while an empty line at a per-file copy confirmation does not.
C9_Original ==
    /\ spc = "confirm" => sprompts = sempties + 1
    /\ spc = "copy" => sprompts <= 1

\* C9 as amended: every confirmation of setup.bash, the start confirmation
\* and each per-file copy confirmation alike, shows its prompt again after an
\* empty line, and no confirmation is decided on an empty line.
C9_Amended ==
    /\ spc \in {"confirm", "copy"} => sprompts = sempties + 1
    /\ sanswer /= <<>>

\* A per-file copy confirmation has read two empty lines and shows its prompt
\* for the third time.
C9_Witness ==
    /\ spc = "copy"
    /\ sentry >= 1
    /\ sempties = 2
    /\ sprompts = 3

===========================================================================
